---- MODULE Spec2Model ----
(***************************************************************************)
(* hokusai/commands/stack.py: the four stack commands (stack_create,       *)
(* stack_update, stack_delete, stack_status) as a sequential program.      *)
(* One behaviour is one invocation of one command against a file system    *)
(* and a cluster that may be in any state.  Every statement that prints,   *)
(* calls Secret or shells out to kubectl appends one event to `trace`, so  *)
(* the order of the events is the order of the statements.                 *)
(***************************************************************************)
EXTENDS Integers, Sequences, FiniteSets, TLC

VARIABLES
  files,            \* the regular files that exist (os.path.isfile)
  secrets,          \* cluster: contexts whose <project>-secrets secret exists
  stacks,           \* cluster: contexts whose manifest has been applied
  pc,               \* position of the running command
  op,               \* the command invoked
  context,          \* its argument
  cwd,              \* what os.getcwd() returned to the command
  kubernetes_yml,   \* local variable kubernetes_yml
  trace,            \* prints, Secret calls and kubectl commands, in order
  ret,              \* how the command's body ended
  deployment,       \* local variable deployment (cache, current_tag)
  deployment_data,  \* local variable deployment_data
  service,          \* local variable service (cache)
  service_data      \* local variable service_data

vars == <<files, secrets, stacks, pc, op, context, cwd, kubernetes_yml, trace,
          ret, deployment, deployment_data, service, service_data>>

cluster == <<secrets, stacks>>
locals == <<deployment, deployment_data, service, service_data>>

----------------------------------------------------------------------------
(* Bounds and input domains *)

MaxDeployments == 2
MaxServices == 1

Contexts == {"staging", "production"}
\* Working directories, as sequences of path tokens.
Roots == {<<"/", "srv", "/", "app">>, <<"/", "tmp">>}
Tags == {"v1", "v2"}
Null == "null"

Mutating == {"stack_create", "stack_update", "stack_delete"}
Commands == Mutating \cup {"stack_status"}

StatusKeys == {"availableReplicas", "unavailableReplicas"}
\* A deployment's status carries each replica count only when it is non-zero.
Statuses ==
  UNION {[ks -> {1}] : ks \in SUBSET StatusKeys}
DeploymentItems ==
  {[metadata |-> [name |-> "web"], spec |-> [replicas |-> r], status |-> s] :
     r \in {2}, s \in Statuses}
ServiceItems ==
  {[spec |-> [selector |-> [app |-> "web"], clusterIP |-> ip, ports |-> <<80>>],
    status |-> [loadBalancer |-> "none"]] : ip \in {"10.0.0.1", "10.0.0.2"}}

SeqsUpTo(S, n) == UNION {[1..k -> S] : k \in 0..n}

----------------------------------------------------------------------------
(* Paths *)

\* "hokusai/%s.yml" % context
ManifestName(c) == <<"hokusai", "/", c, ".yml">>

\* os.path.join(a, b): an absolute b replaces a; otherwise one separator
\* stands between a and b.
OsPathJoin(a, b) ==
  IF b # <<>> /\ b[1] = "/" THEN b
  ELSE IF a = <<>> \/ a[Len(a)] = "/" THEN a \o b
  ELSE a \o <<"/">> \o b

KubernetesYml(root, c) == OsPathJoin(root, ManifestName(c))

IsFile(p) == p \in files

AllManifests == {KubernetesYml(r, c) : r \in Roots, c \in Contexts}

----------------------------------------------------------------------------
(* Events *)

PrintRed(fmt, arg) == [kind |-> "print_red", fmt |-> fmt, arg |-> arg]
PrintGreen(fmt, arg) == [kind |-> "print_green", fmt |-> fmt, arg |-> arg]
PrintPlain(fmt, arg) == [kind |-> "print", fmt |-> fmt, arg |-> arg]
SecretCall(method, c) == [kind |-> "Secret", fmt |-> method, arg |-> c]
\* shout(Kubectl(c).command("<verb> -f <path>"))
Shout(c, verb, path) ==
  [kind |-> "shout", fmt |-> verb, arg |-> [context |-> c, flag |-> "-f", file |-> path]]

ProjectName == "project"

MissingMsg == "Yaml file %s does not exist for given context."

----------------------------------------------------------------------------
(* The cluster's side of the calls.  hokusai/secret.py and hokusai/kubectl.py *)
(* are not part of the sources at hand; the effects are those their names    *)
(* state.                                                                     *)

\* Secret(c).create(): the context's secret exists afterwards.
SecretCreate(s, c) == s \cup {c}
\* Secret(c).destroy(): it does not.
SecretDestroy(s, c) == s \ {c}
\* kubectl apply -f <manifest>, when it succeeds
KubectlApply(st, c) == st \cup {c}
\* kubectl delete -f <manifest>, when it succeeds
KubectlDelete(st, c) == st \ {c}

----------------------------------------------------------------------------
(* Initial state: any file system and any cluster, no command running *)

Init ==
  /\ files \in SUBSET AllManifests
  /\ secrets \in SUBSET Contexts
  /\ stacks \in SUBSET Contexts
  /\ pc = "idle"
  /\ op = Null
  /\ context = Null
  /\ cwd = <<>>
  /\ kubernetes_yml = <<>>
  /\ trace = <<>>
  /\ ret = "running"
  /\ deployment = Null
  /\ deployment_data = <<>>
  /\ service = Null
  /\ service_data = <<>>

\* The command line names one command and its context argument.
Invoke ==
  /\ pc = "idle"
  /\ \E o \in Commands, c \in Contexts :
       /\ op' = o
       /\ context' = c
       /\ pc' = IF o = "stack_status" THEN "deployment" ELSE "check"
  /\ UNCHANGED <<files, cluster, cwd, kubernetes_yml, trace, ret, locals>>

----------------------------------------------------------------------------
(* stack_create *)

\* lines 17-20
stack_create_check ==
  /\ pc = "check" /\ op = "stack_create"
  /\ \E root \in Roots :
       /\ cwd' = root
       /\ kubernetes_yml' = KubernetesYml(root, context)
  /\ IF ~IsFile(kubernetes_yml')
       THEN /\ trace' = Append(trace, PrintRed(MissingMsg, kubernetes_yml'))
            /\ ret' = "return -1"
            /\ pc' = "done"
       ELSE /\ pc' = "secret"
            /\ UNCHANGED <<trace, ret>>
  /\ UNCHANGED <<files, cluster, op, context, locals>>

\* lines 22-23
stack_create_secret ==
  /\ pc = "secret" /\ op = "stack_create"
  /\ secrets' = SecretCreate(secrets, context)
  /\ trace' = Append(trace, SecretCall("create", context))
  /\ pc' = "secret_msg"
  /\ UNCHANGED <<files, stacks, op, context, cwd, kubernetes_yml, ret, locals>>

\* line 24
stack_create_secret_msg ==
  /\ pc = "secret_msg" /\ op = "stack_create"
  /\ trace' = Append(trace, PrintGreen("Created secret %s-secrets", ProjectName))
  /\ pc' = "kubectl"
  /\ UNCHANGED <<files, cluster, op, context, cwd, kubernetes_yml, ret, locals>>

\* stack_create_apply undoing the secret when kubectl fails
stack_create_apply_rollback ==
  /\ pc = "kubectl" /\ op = "stack_create"
  /\ trace' = Append(trace, Shout(context, "apply", kubernetes_yml))
  /\ \E ok \in BOOLEAN :
       IF ok
         THEN /\ stacks' = KubectlApply(stacks, context)
              /\ pc' = "stack_msg"
              /\ UNCHANGED <<ret, secrets>>
         ELSE /\ ret' = "raise"
              /\ pc' = "done"
              /\ secrets' = SecretDestroy(secrets, context)
              /\ UNCHANGED stacks
  /\ UNCHANGED <<files, op, context, cwd, kubernetes_yml, locals>>

\* lines 26-27: the command is issued; when kubectl fails, shout raises and
\* the exception leaves stack_create.
stack_create_apply ==
  /\ pc = "kubectl" /\ op = "stack_create"
  /\ trace' = Append(trace, Shout(context, "apply", kubernetes_yml))
  /\ \E ok \in BOOLEAN :
       IF ok
         THEN /\ stacks' = KubectlApply(stacks, context)
              /\ pc' = "stack_msg"
              /\ UNCHANGED ret
         ELSE /\ ret' = "raise"
              /\ pc' = "done"
              /\ UNCHANGED stacks
  /\ UNCHANGED <<files, secrets, op, context, cwd, kubernetes_yml, locals>>

\* stack_create_msg also printing before the kubectl command is issued
stack_create_msg_early ==
  /\ op = "stack_create"
  /\ \/ /\ pc = "stack_msg"
        /\ trace' = Append(trace, PrintGreen("Created stack %s", context))
        /\ ret' = "return None"
        /\ pc' = "done"
     \/ /\ pc = "kubectl"
        /\ \A i \in DOMAIN trace : trace[i].fmt # "Created stack %s"
        /\ trace' = Append(trace, PrintGreen("Created stack %s", context))
        /\ UNCHANGED <<ret, pc>>
  /\ UNCHANGED <<files, cluster, op, context, cwd, kubernetes_yml, locals>>

\* line 28, then the body ends
stack_create_msg ==
  /\ pc = "stack_msg" /\ op = "stack_create"
  /\ trace' = Append(trace, PrintGreen("Created stack %s", context))
  /\ ret' = "return None"
  /\ pc' = "done"
  /\ UNCHANGED <<files, cluster, op, context, cwd, kubernetes_yml, locals>>

----------------------------------------------------------------------------
(* stack_update *)

\* stack_update_check printing the error and then falling off the end
stack_update_check_return_none ==
  /\ pc = "check" /\ op = "stack_update"
  /\ \E root \in Roots :
       /\ cwd' = root
       /\ kubernetes_yml' = KubernetesYml(root, context)
  /\ IF ~IsFile(kubernetes_yml')
       THEN /\ trace' = Append(trace, PrintRed(MissingMsg, kubernetes_yml'))
            /\ ret' = "return None"
            /\ pc' = "done"
       ELSE /\ pc' = "kubectl"
            /\ UNCHANGED <<trace, ret>>
  /\ UNCHANGED <<files, cluster, op, context, locals>>

\* stack_update_check with the test inverted
stack_update_check_inverted ==
  /\ pc = "check" /\ op = "stack_update"
  /\ \E root \in Roots :
       /\ cwd' = root
       /\ kubernetes_yml' = KubernetesYml(root, context)
  /\ IF IsFile(kubernetes_yml')
       THEN /\ trace' = Append(trace, PrintRed(MissingMsg, kubernetes_yml'))
            /\ ret' = "return -1"
            /\ pc' = "done"
       ELSE /\ pc' = "kubectl"
            /\ UNCHANGED <<trace, ret>>
  /\ UNCHANGED <<files, cluster, op, context, locals>>

\* lines 32-35
stack_update_check ==
  /\ pc = "check" /\ op = "stack_update"
  /\ \E root \in Roots :
       /\ cwd' = root
       /\ kubernetes_yml' = KubernetesYml(root, context)
  /\ IF ~IsFile(kubernetes_yml')
       THEN /\ trace' = Append(trace, PrintRed(MissingMsg, kubernetes_yml'))
            /\ ret' = "return -1"
            /\ pc' = "done"
       ELSE /\ pc' = "kubectl"
            /\ UNCHANGED <<trace, ret>>
  /\ UNCHANGED <<files, cluster, op, context, locals>>

\* stack_update_apply handing kubectl the unjoined manifest name
stack_update_apply_relative ==
  /\ pc = "kubectl" /\ op = "stack_update"
  /\ trace' = Append(trace, Shout(context, "apply", ManifestName(context)))
  /\ \E ok \in BOOLEAN :
       IF ok
         THEN /\ stacks' = KubectlApply(stacks, context)
              /\ pc' = "stack_msg"
              /\ UNCHANGED ret
         ELSE /\ ret' = "raise"
              /\ pc' = "done"
              /\ UNCHANGED stacks
  /\ UNCHANGED <<files, secrets, op, context, cwd, kubernetes_yml, locals>>

\* stack_update_apply creating the secret as stack_create does
stack_update_apply_with_secret ==
  /\ pc = "kubectl" /\ op = "stack_update"
  /\ secrets' = SecretCreate(secrets, context)
  /\ trace' = Append(Append(trace, SecretCall("create", context)),
                     Shout(context, "apply", kubernetes_yml))
  /\ \E ok \in BOOLEAN :
       IF ok
         THEN /\ stacks' = KubectlApply(stacks, context)
              /\ pc' = "stack_msg"
              /\ UNCHANGED ret
         ELSE /\ ret' = "raise"
              /\ pc' = "done"
              /\ UNCHANGED stacks
  /\ UNCHANGED <<files, op, context, cwd, kubernetes_yml, locals>>

\* lines 37-38
stack_update_apply ==
  /\ pc = "kubectl" /\ op = "stack_update"
  /\ trace' = Append(trace, Shout(context, "apply", kubernetes_yml))
  /\ \E ok \in BOOLEAN :
       IF ok
         THEN /\ stacks' = KubectlApply(stacks, context)
              /\ pc' = "stack_msg"
              /\ UNCHANGED ret
         ELSE /\ ret' = "raise"
              /\ pc' = "done"
              /\ UNCHANGED stacks
  /\ UNCHANGED <<files, secrets, op, context, cwd, kubernetes_yml, locals>>

\* line 39, then the body ends
stack_update_msg ==
  /\ pc = "stack_msg" /\ op = "stack_update"
  /\ trace' = Append(trace, PrintGreen("Updated stack %s", context))
  /\ ret' = "return None"
  /\ pc' = "done"
  /\ UNCHANGED <<files, cluster, op, context, cwd, kubernetes_yml, locals>>

----------------------------------------------------------------------------
(* stack_delete *)

\* stack_delete_check printing the error without returning
stack_delete_check_no_return ==
  /\ pc = "check" /\ op = "stack_delete"
  /\ \E root \in Roots :
       /\ cwd' = root
       /\ kubernetes_yml' = KubernetesYml(root, context)
  /\ IF ~IsFile(kubernetes_yml')
       THEN /\ trace' = Append(trace, PrintRed(MissingMsg, kubernetes_yml'))
            /\ pc' = "secret"
            /\ UNCHANGED ret
       ELSE /\ pc' = "secret"
            /\ UNCHANGED <<trace, ret>>
  /\ UNCHANGED <<files, cluster, op, context, locals>>

\* lines 43-46
stack_delete_check ==
  /\ pc = "check" /\ op = "stack_delete"
  /\ \E root \in Roots :
       /\ cwd' = root
       /\ kubernetes_yml' = KubernetesYml(root, context)
  /\ IF ~IsFile(kubernetes_yml')
       THEN /\ trace' = Append(trace, PrintRed(MissingMsg, kubernetes_yml'))
            /\ ret' = "return -1"
            /\ pc' = "done"
       ELSE /\ pc' = "secret"
            /\ UNCHANGED <<trace, ret>>
  /\ UNCHANGED <<files, cluster, op, context, locals>>

\* lines 48-49
stack_delete_secret ==
  /\ pc = "secret" /\ op = "stack_delete"
  /\ secrets' = SecretDestroy(secrets, context)
  /\ trace' = Append(trace, SecretCall("destroy", context))
  /\ pc' = "secret_msg"
  /\ UNCHANGED <<files, stacks, op, context, cwd, kubernetes_yml, ret, locals>>

\* line 50
stack_delete_secret_msg ==
  /\ pc = "secret_msg" /\ op = "stack_delete"
  /\ trace' = Append(trace, PrintGreen("Deleted secret %s-secrets", ProjectName))
  /\ pc' = "kubectl"
  /\ UNCHANGED <<files, cluster, op, context, cwd, kubernetes_yml, ret, locals>>

\* stack_delete_delete issuing stack_create's verb
stack_delete_delete_apply ==
  /\ pc = "kubectl" /\ op = "stack_delete"
  /\ trace' = Append(trace, Shout(context, "apply", kubernetes_yml))
  /\ \E ok \in BOOLEAN :
       IF ok
         THEN /\ stacks' = KubectlApply(stacks, context)
              /\ pc' = "stack_msg"
              /\ UNCHANGED ret
         ELSE /\ ret' = "raise"
              /\ pc' = "done"
              /\ UNCHANGED stacks
  /\ UNCHANGED <<files, secrets, op, context, cwd, kubernetes_yml, locals>>

\* lines 52-53
stack_delete_delete ==
  /\ pc = "kubectl" /\ op = "stack_delete"
  /\ trace' = Append(trace, Shout(context, "delete", kubernetes_yml))
  /\ \E ok \in BOOLEAN :
       IF ok
         THEN /\ stacks' = KubectlDelete(stacks, context)
              /\ pc' = "stack_msg"
              /\ UNCHANGED ret
         ELSE /\ ret' = "raise"
              /\ pc' = "done"
              /\ UNCHANGED stacks
  /\ UNCHANGED <<files, secrets, op, context, cwd, kubernetes_yml, locals>>

\* line 54, then the body ends
stack_delete_msg ==
  /\ pc = "stack_msg" /\ op = "stack_delete"
  /\ trace' = Append(trace, PrintGreen("Deleted stack %s", context))
  /\ ret' = "return None"
  /\ pc' = "done"
  /\ UNCHANGED <<files, cluster, op, context, cwd, kubernetes_yml, locals>>

----------------------------------------------------------------------------
(* stack_status *)

\* DeploymentEntry reading availableReplicas for both counts
DeploymentEntry_copied_key(item, tag) ==
  [name |-> item.metadata.name,
   desiredReplicas |-> item.spec.replicas,
   availableReplicas |->
     IF "availableReplicas" \in DOMAIN item.status
       THEN item.status["availableReplicas"] ELSE 0,
   unavailableReplicas |->
     IF "availableReplicas" \in DOMAIN item.status
       THEN item.status["availableReplicas"] ELSE 0,
   tag |-> tag]

\* lines 61-67: the entry built from one item of the deployment cache
DeploymentEntry(item, tag) ==
  [name |-> item.metadata.name,
   desiredReplicas |-> item.spec.replicas,
   availableReplicas |->
     IF "availableReplicas" \in DOMAIN item.status
       THEN item.status["availableReplicas"] ELSE 0,
   unavailableReplicas |->
     IF "unavailableReplicas" \in DOMAIN item.status
       THEN item.status["unavailableReplicas"] ELSE 0,
   tag |-> tag]

\* lines 59-67: for item in deployment.cache: deployment_data.append(...)
RECURSIVE DeploymentLoop(_, _, _)
DeploymentLoop(items, tag, data) ==
  IF items = <<>> THEN data
  ELSE DeploymentLoop(Tail(items), tag, Append(data, DeploymentEntry(Head(items), tag)))

\* lines 72-77: the entry built from one item of the service cache
ServiceEntry(item) ==
  [target |-> item.spec.selector.app,
   clusterIP |-> item.spec.clusterIP,
   ports |-> item.spec.ports,
   status |-> item.status]

\* lines 70-77: for item in service.cache: service_data.append(...)
RECURSIVE ServiceLoop(_, _)
ServiceLoop(items, data) ==
  IF items = <<>> THEN data
  ELSE ServiceLoop(Tail(items), Append(data, ServiceEntry(Head(items))))

Rule == "-----------------------------------------------------------"

\* lines 78-87: what stack_status prints, in order
StatusReport(c, dd, sd) ==
  <<PrintPlain("", Null),
    PrintGreen("Stack %s status", c),
    PrintPlain("", Null),
    PrintGreen("Deployments", Null),
    PrintGreen(Rule, Null),
    PrintPlain("yaml.safe_dump", dd),
    PrintGreen("Services", Null),
    PrintGreen(Rule, Null),
    PrintPlain("yaml.safe_dump", sd)>>

\* stack_status_deployments applying the manifest while it reads
stack_status_deployments_apply ==
  /\ pc = "deployment" /\ op = "stack_status"
  /\ \E cache \in SeqsUpTo(DeploymentItems, MaxDeployments), tag \in Tags :
       /\ deployment' = [cache |-> cache, current_tag |-> tag]
       /\ deployment_data' = DeploymentLoop(cache, tag, <<>>)
  /\ stacks' = KubectlApply(stacks, context)
  /\ pc' = "service"
  /\ UNCHANGED <<files, secrets, op, context, cwd, kubernetes_yml, trace, ret,
                 service, service_data>>

\* lines 58-67: Deployment(context) reads the cluster's deployments and their
\* current tag; the loop fills deployment_data.
stack_status_deployments ==
  /\ pc = "deployment" /\ op = "stack_status"
  /\ \E cache \in SeqsUpTo(DeploymentItems, MaxDeployments), tag \in Tags :
       /\ deployment' = [cache |-> cache, current_tag |-> tag]
       /\ deployment_data' = DeploymentLoop(cache, tag, <<>>)
  /\ pc' = "service"
  /\ UNCHANGED <<files, cluster, op, context, cwd, kubernetes_yml, trace, ret,
                 service, service_data>>

\* lines 69-77: Service(context) reads the cluster's services; the loop fills
\* service_data.
stack_status_services ==
  /\ pc = "service" /\ op = "stack_status"
  /\ \E cache \in SeqsUpTo(ServiceItems, MaxServices) :
       /\ service' = [cache |-> cache]
       /\ service_data' = ServiceLoop(cache, <<>>)
  /\ pc' = "print"
  /\ UNCHANGED <<files, cluster, op, context, cwd, kubernetes_yml, trace, ret,
                 deployment, deployment_data>>

\* lines 78-87, then the body ends
stack_status_print ==
  /\ pc = "print" /\ op = "stack_status"
  /\ trace' = trace \o StatusReport(context, deployment_data, service_data)
  /\ ret' = "return None"
  /\ pc' = "done"
  /\ UNCHANGED <<files, cluster, op, context, cwd, kubernetes_yml, locals>>

----------------------------------------------------------------------------

Next ==
  \/ Invoke
  \/ stack_create_check
  \/ stack_create_secret
  \/ stack_create_secret_msg
  \/ stack_create_apply
  \/ stack_create_msg
  \/ stack_update_check
  \/ stack_update_apply
  \/ stack_update_msg
  \/ stack_delete_check
  \/ stack_delete_secret
  \/ stack_delete_secret_msg
  \/ stack_delete_delete
  \/ stack_delete_msg
  \/ stack_status_deployments
  \/ stack_status_services
  \/ stack_status_print

Spec == Init /\ [][Next]_vars

----------------------------------------------------------------------------
(* Vocabulary of the properties *)

\* <root>/hokusai/<context>.yml
ManifestPath(root, c) == root \o <<"/", "hokusai", "/", c, ".yml">>

\* The running command is past its manifest check.
Checked == op \in Mutating /\ pc \notin {"idle", "check"}
ManifestMissing == Checked /\ ManifestPath(cwd, context) \notin files
ManifestExists == Checked /\ ManifestPath(cwd, context) \in files

Idx(kind) == {i \in DOMAIN trace : trace[i].kind = kind}
IdxFmt(kind, fmt) == {i \in DOMAIN trace : trace[i].kind = kind /\ trace[i].fmt = fmt}
ShoutIdx == Idx("shout")
SecretIdx == Idx("Secret")

SuccessMsgs ==
  {"Created secret %s-secrets", "Created stack %s", "Updated stack %s",
   "Deleted secret %s-secrets", "Deleted stack %s"}

SameEvent(a, b) == a.kind = b.kind /\ a.fmt = b.fmt /\ a.arg = b.arg

IsPrefix(t, full) ==
  /\ Len(t) <= Len(full)
  /\ \A i \in DOMAIN t : SameEvent(t[i], full[i])

Verb(o) == IF o = "stack_delete" THEN "delete" ELSE "apply"

----------------------------------------------------------------------------
\* C1: when the manifest file <cwd>/hokusai/<context>.yml does not exist,
\* stack_create, stack_update and stack_delete end right after the check:
\* the run holds no Secret call and no kubectl command.
C1_MissingNoExternalAction ==
  ManifestMissing =>
    /\ pc = "done"
    /\ SecretIdx = {}
    /\ ShoutIdx = {}

\* stack_delete has ended on a missing manifest while the other context's
\* manifest exists in the same directory.
C1_Witness ==
  /\ op = "stack_delete" /\ pc = "done" /\ ManifestMissing
  /\ \E c \in Contexts \ {context} : ManifestPath(cwd, c) \in files

\* C2: a mutating command that ended on a missing manifest printed exactly
\* one error message, naming the manifest path, returned -1 and printed no
\* success message.
C2_MissingOneErrorAndMinusOne ==
  (ManifestMissing /\ pc = "done") =>
    /\ Cardinality(Idx("print_red")) = 1
    /\ \A i \in Idx("print_red") :
         trace[i].fmt = MissingMsg /\ trace[i].arg = ManifestPath(cwd, context)
    /\ ret = "return -1"
    /\ \A i \in Idx("print_green") : trace[i].fmt \notin SuccessMsgs

\* stack_update has ended on a missing manifest.
C2_Witness ==
  /\ op = "stack_update" /\ pc = "done" /\ ManifestMissing
  /\ Len(trace) = 1

C4_PathOfRootAndContext ==
  Checked =>
    /\ kubernetes_yml = ManifestPath(cwd, context)
    /\ \A i \in ShoutIdx :
         /\ trace[i].arg.file = kubernetes_yml
         /\ trace[i].arg.file \in files
         /\ trace[i].arg.context = context
         /\ \A r \in Roots, c \in Contexts \ {context} :
              trace[i].arg.file # ManifestPath(r, c)

\* stack_update has issued its command in a directory and a context whose
\* manifest exists while the other context's and the other directory's do
\* not.
C4_Witness ==
  /\ op = "stack_update" /\ ShoutIdx # {}
  /\ files = {ManifestPath(cwd, context)}

\* C5: no step of stack_status changes the secrets, the applied stacks or
\* the files, and its trace holds prints only.
C5_StatusReadOnly ==
  [][op = "stack_status" =>
       /\ UNCHANGED <<secrets, stacks, files>>
       /\ \A i \in DOMAIN trace' : trace'[i].kind \in {"print", "print_green"}]_vars

\* stack_status has printed its report for a context with a secret and an
\* applied stack.
C5_Witness ==
  /\ op = "stack_status" /\ pc = "done"
  /\ context \in secrets /\ context \in stacks
  /\ Len(trace) = Len(StatusReport(context, deployment_data, service_data))

\* C6: a command returns -1 only as a mutating command whose manifest is
\* missing; stack_status never does.
C6_MinusOneOnlyWhenMissing ==
  ret = "return -1" => ManifestMissing

\* stack_status has ended normally for a context that has no manifest in
\* any directory.
C6_Witness ==
  /\ op = "stack_status" /\ pc = "done" /\ ret = "return None"
  /\ \A r \in Roots : ManifestPath(r, context) \notin files

\* The events of a complete run of stack_create and of stack_delete, in
\* the order of the claim: secret step, its message, the kubectl command,
\* the final message.
CreateOrder ==
  <<SecretCall("create", context),
    PrintGreen("Created secret %s-secrets", ProjectName),
    Shout(context, "apply", ManifestPath(cwd, context)),
    PrintGreen("Created stack %s", context)>>
DeleteOrder ==
  <<SecretCall("destroy", context),
    PrintGreen("Deleted secret %s-secrets", ProjectName),
    Shout(context, "delete", ManifestPath(cwd, context)),
    PrintGreen("Deleted stack %s", context)>>

FinalMsgIdx ==
  IdxFmt("print_green", "Created stack %s") \cup IdxFmt("print_green", "Deleted stack %s")

\* C7: with the manifest present, the events of stack_create (stack_delete)
\* are at every moment an initial part of: Secret create (destroy), its
\* message, apply -f (delete -f), "Created stack" ("Deleted stack"); so the
\* secret step precedes the kubectl command, and the final message is
\* printed only after the command was issued and returned normally.
C7_StepsInOrder ==
  /\ (ManifestExists /\ op = "stack_create") => IsPrefix(trace, CreateOrder)
  /\ (ManifestExists /\ op = "stack_delete") => IsPrefix(trace, DeleteOrder)
  /\ \A i \in ShoutIdx : op \in {"stack_create", "stack_delete"} =>
       \E j \in SecretIdx : j < i
  /\ \A i \in FinalMsgIdx :
       /\ \E j \in ShoutIdx : j < i
       /\ ret = "return None"

\* stack_create has run to its end: all four events are in the trace.
C7_Witness ==
  /\ op = "stack_create" /\ pc = "done"
  /\ Len(trace) = Len(CreateOrder)
  /\ context \in stacks

\* C8: no step of stack_update changes the secrets or makes a Secret call;
\* the secrets change only by stack_create adding its context's secret and
\* by stack_delete removing it.
C8_UpdateLeavesSecrets ==
  [][/\ op = "stack_update" =>
          /\ secrets' = secrets
          /\ \A i \in DOMAIN trace' : trace'[i].kind # "Secret"
     /\ secrets' # secrets =>
          \/ op = "stack_create" /\ secrets' = secrets \cup {context}
          \/ op = "stack_delete" /\ secrets' = secrets \ {context}
     /\ \A i \in DOMAIN trace' : trace'[i].kind = "Secret" =>
          \/ op = "stack_create" /\ trace'[i].fmt = "create"
          \/ op = "stack_delete" /\ trace'[i].fmt = "destroy"]_vars

\* stack_update has applied the manifest of a context that has no secret.
C8_Witness ==
  /\ op = "stack_update" /\ pc = "done" /\ ret = "return None"
  /\ context \notin secrets /\ context \in stacks

C10_NoRollback ==
  ret = "raise" =>
    /\ pc = "done"
    /\ ShoutIdx # {}
    /\ FinalMsgIdx = {}
    /\ op = "stack_create" =>
         /\ context \in secrets
         /\ \E i \in SecretIdx : trace[i].fmt = "create"
    /\ op = "stack_delete" =>
         /\ context \notin secrets
         /\ \E i \in SecretIdx : trace[i].fmt = "destroy"

\* delete -f has failed in stack_delete: the stack is still applied and its
\* secret is gone.
C10_Witness ==
  /\ op = "stack_delete" /\ ret = "raise"
  /\ context \in stacks /\ context \notin secrets
  /\ \E i \in SecretIdx : trace[i].fmt = "destroy"

====
